---- MODULE Spec2Model ----
(***************************************************************************)
(* TelemetryController and ExportAsJSONAction of                           *)
(* platform/telemetry/src/TelemetryController.js as state machines.        *)
(*                                                                         *)
(* The controller: the closure state `self`, the promises and timers that  *)
(* are outstanding, and one action per public method or callback.          *)
(* The export action: the instance field `calls`, the tree of every        *)
(* perform(), the composition lookups in flight and the exportJSON calls.  *)
(***************************************************************************)
EXTENDS Integers, Sequences, FiniteSets, Bags, TLC

\* ------------------------------------------------------------------------
\* Bounds of the model
\* ------------------------------------------------------------------------
MaxChanges == 2     \* firings of the $watch("domainObject") listener
MaxRequests == 2    \* calls of requestData
MaxInFlight == 3    \* telemetry fetches outstanding at one time
MaxRejects == 1     \* telemetry fetches that fail
MaxCounted == 2     \* storeData calls counted between two broadcasts
MaxNodes == 3       \* nodes of the composition graph
MaxPerforms == 2    \* calls of perform() on one action instance

\* ------------------------------------------------------------------------
\* The domain objects the controller can meet (the external framework)
\* ------------------------------------------------------------------------
NoObj == "undefined"            \* $scope.domainObject is absent
Undefined == "undefined"        \* the JavaScript value undefined
\* A: telemetry of its own; P: telemetry of its own and delegates A and N;
\* N: a delegate without the telemetry capability
Represented == {NoObj, "A", "P"}

\* domainObject.getId()
getId(o) ==
    CASE o = "A" -> "a" [] o = "N" -> "n" [] o = "P" -> "p"

\* domainObject.hasCapability("telemetry") / getCapability("telemetry")
hasTelemetry(o) == o \in {"A", "P"}

\* telemetry.getMetadata() of the object's telemetry capability
telemetryMetadata(o) == <<"metadata", o>>

\* domainObject.getModel().name
getName(o) == <<"name", o>>

\* domainObject.useCapability("delegation", "telemetry"), once resolved:
\* a list of objects, or undefined for an object without the capability
hasDelegation(o) == o = "P"

delegation(o) == IF o = "P" THEN <<"A", "N">> ELSE <<>>

\* {} as a metadata snapshot or as a response payload
Empty == <<>>

\* undefined where a payload is expected
NoPayload == <<"undefined">>

\* telemetry.requestData(request), once fulfilled: the provider's payload
\* for these request parameters
telemetryData(req) == <<"data", req>>

\* request parameters: {} (the initial value, and request || {}) and two
\* requests a caller can pass
EmptyRequest == "{}"
RequestArgs == {Undefined, "R1"}
Truthy(v) == v \notin {Undefined, "null"}


\* poll intervals a caller can set
InitialInterval == "1000"
Intervals == {Undefined, "500", "1000"}

VARIABLES
    \* ---- TelemetryController: self ----
    ids,            \* self.ids
    response,       \* self.response: id -> container
    request,        \* self.request
    pending,        \* self.pending
    metadatas,      \* self.metadatas
    interval,       \* self.interval
    refreshing,     \* self.refreshing
    broadcasting,   \* self.broadcasting
    \* ---- TelemetryController: the environment of the closure ----
    watched,        \* the value last given to the $watch listener
    lookups,        \* promiseRelevantDomainObjects promises not yet settled
    fetches,        \* telemetry.requestData promises not yet settled (a bag)
    batches,        \* one record per requestData call: its combined signal
    pollTimers,     \* delays of the outstanding $timeout(.., interval)
    bcastTimers,    \* outstanding $timeout callbacks of doBroadcast
    \* ---- TelemetryController: observation ----
    emitted,        \* events the callback that ran last has broadcast, each
                    \* with the number of storeData calls it comes after
    unannounced,    \* storeData calls since the last emission (counted up
                    \* to MaxCounted)
    stuck,          \* tracked fetches that were rejected
    nRejects,       \* fetches that were rejected
    nChanges,       \* firings of the $watch listener so far
    \* ---- ExportAsJSONAction ----
    composition,    \* the composition graph (fixed during a behaviour)
    calls,          \* this.calls
    trees,          \* the tree of every contructJSON call
    compLookups,    \* useCapability('composition') promises not yet settled
    exports,        \* exportService.exportJSON invocations so far
    zeros,          \* times this.calls === 0 was found true
    compFailed      \* composition lookups that were rejected

ctlVars == <<ids, response, request, pending, metadatas, interval, refreshing,
             broadcasting, watched, lookups, fetches, batches, pollTimers,
             bcastTimers, emitted, unannounced, stuck, nRejects, nChanges>>
expVars == <<composition, calls, trees, compLookups, exports, zeros, compFailed>>
vars == <<ids, response, request, pending, metadatas, interval, refreshing,
          broadcasting, watched, lookups, fetches, batches, pollTimers,
          bcastTimers, emitted, unannounced, stuck, nRejects, nChanges,
          composition, calls, trees, compLookups, exports, zeros, compFailed>>


\* ------------------------------------------------------------------------
\* TelemetryController
\* ------------------------------------------------------------------------

\* startTimeout() with a guard that does not look at the interval
startTimeoutArmsAlways(refr, intv) == ~refr

\* startTimeout(): the guard, the flag and the timer it arms
startTimeoutArms(refr, intv) == ~refr /\ intv # Undefined

\* startTimeout() that does not look at self.refreshing
startTimeoutUnflagged(refr, intv, timers) ==
    IF intv # Undefined
    THEN [refreshing |-> TRUE, pollTimers |-> Append(timers, intv)]
    ELSE [refreshing |-> refr, pollTimers |-> timers]

startTimeout(refr, intv, timers) ==
    IF startTimeoutArms(refr, intv)
    THEN [refreshing |-> TRUE, pollTimers |-> Append(timers, intv)]
    ELSE [refreshing |-> refr, pollTimers |-> timers]

\* self.pending += 1, whatever trackPending is
pendingIncrementAlways(trackPending) == 1

\* self.pending += trackPending ? 1 : 0
pendingIncrement(trackPending) == IF trackPending THEN 1 ELSE 0

\* storeData without the decrement
pendingDecrementNever(trackPending) == 0

\* storeData that lowers self.pending whatever trackPending is
pendingDecrementAlways(trackPending) == 1

\* self.pending -= trackPending ? 1 : 0 (in storeData)
pendingDecrement(trackPending) == IF trackPending THEN 1 ELSE 0

\* the missing-capability path without its decrement
pendingUndoNever(trackPending) == 0

\* self.pending -= trackPending ? 1 : 0 (on the missing-capability path)
pendingUndo(trackPending) == IF trackPending THEN 1 ELSE 0

\* requestTelemetryForId(id, trackPending) for self.ids[i..], in order:
\* st = [pending, fetches], the state the calls before have left
RECURSIVE requestTelemetryFrom(_, _, _, _, _, _, _)
requestTelemetryFrom(i, idList, resp, req, trackPending, batch, st) ==
    IF i > Len(idList) THEN st
    ELSE
        LET id == idList[i]
            domainObject == resp[id].domainObject
            telemetry == hasTelemetry(domainObject)
            raised == st.pending + pendingIncrement(trackPending)
        IN  IF ~telemetry
            THEN \* warn, undo the increment, return undefined
                 requestTelemetryFrom(i + 1, idList, resp, req, trackPending, batch,
                    [st EXCEPT !.pending = raised - pendingUndo(trackPending)])
            ELSE requestTelemetryFrom(i + 1, idList, resp, req, trackPending, batch,
                    [pending |-> raised,
                     fetches |-> st.fetches (+) SetToBag({
                        [id |-> id, track |-> trackPending, req |-> req,
                         live |-> TRUE, batch |-> batch]}),
                     issued |-> st.issued + 1])

\* requestTelemetry(trackPending)
requestTelemetry(idList, resp, req, trackPending, batch, pend, inFlight) ==
    requestTelemetryFrom(1, idList, resp, req, trackPending, batch,
        [pending |-> pend, fetches |-> inFlight, issued |-> 0])


\* promiseRelevantDomainObjects(domainObject), once its promise resolves
promiseRelevantDomainObjects(domainObject) ==
    IF domainObject = NoObj THEN <<>>
    ELSE LET result == delegation(domainObject)
             head == IF hasTelemetry(domainObject) THEN <<domainObject>> ELSE <<>>
             tail == IF hasDelegation(domainObject) THEN result ELSE <<>>
         IN  head \o tail

\* buildResponseContainer(domainObject): the container it stores
buildResponseContainer(domainObject) ==
    IF hasTelemetry(domainObject)
    THEN [name |-> getName(domainObject), domainObject |-> domainObject,
          metadata |-> telemetryMetadata(domainObject), pending |-> 0,
          data |-> Empty]
    ELSE [name |-> getName(domainObject), domainObject |-> domainObject,
          metadata |-> Empty, pending |-> 0, data |-> Empty]

\* domainObjects.forEach(buildResponseContainer), from index i on
RECURSIVE buildAll(_, _, _)
buildAll(i, domainObjects, resp) ==
    IF i > Len(domainObjects) THEN resp
    ELSE buildAll(i + 1, domainObjects,
            [id \in DOMAIN resp \cup {getId(domainObjects[i])} |->
                IF id = getId(domainObjects[i])
                THEN buildResponseContainer(domainObjects[i])
                ELSE resp[id]])

\* self.ids = domainObjects.map(getId)
buildIds(domainObjects) ==
    [i \in 1..Len(domainObjects) |-> getId(domainObjects[i])]

\* the metadata list built in the opposite order of self.ids
buildMetadatasReversed(idList, resp) ==
    [i \in 1..Len(idList) |-> resp[idList[Len(idList) + 1 - i]].metadata]

\* self.metadatas = self.ids.map(id => self.response[id].metadata)
buildMetadatas(idList, resp) ==
    [i \in 1..Len(idList) |-> resp[idList[i]].metadata]

\* A fetch keeps the container it was issued for (responseObject in the
\* closure of storeData). Once buildResponseContainer has stored a new
\* container under the same id, the old one is no longer in self.response.
retire(inFlight, rebuilt) ==
    LET dead(f) == IF f.id \in rebuilt THEN [f EXCEPT !.live = FALSE] ELSE f
        was(g) == [g EXCEPT !.live = TRUE]
        img == {dead(f) : f \in DOMAIN inFlight}
    IN  [g \in img |->
            (IF g \in DOMAIN inFlight THEN inFlight[g] ELSE 0)
          + (IF ~g.live /\ g.id \in rebuilt /\ was(g) \in DOMAIN inFlight
             THEN inFlight[was(g)] ELSE 0)]

\* storeData that looks the container up in self.response when the data
\* comes back
storeDataById(resp, f) == [resp EXCEPT ![f.id].data = telemetryData(f.req)]

\* responseObject.data = data (in storeData): responseObject is the
\* container that was in self.response when the fetch was issued
storeData(resp, f) ==
    IF f.live THEN [resp EXCEPT ![f.id].data = telemetryData(f.req)]
    ELSE resp

\* doBroadcast() without the guard: every call schedules a broadcast
doBroadcastUnguarded(flag, timers) ==
    [broadcasting |-> TRUE, bcastTimers |-> timers + 1, emitted |-> <<>>]

\* doBroadcast(): the guard, and what it leaves in (broadcasting, timers)
doBroadcast(flag, timers) ==
    IF ~flag
    THEN [broadcasting |-> TRUE, bcastTimers |-> timers + 1, emitted |-> <<>>]
    ELSE [broadcasting |-> flag, bcastTimers |-> timers, emitted |-> <<>>]

\* the combined signal of $q.all once one more of its promises is fulfilled
allFulfilOne(b) ==
    LET left == b.left - 1
    IN  IF b.status = "waiting" /\ left = 0
        THEN [b EXCEPT !.left = left, !.status = "resolved"]
        ELSE [b EXCEPT !.left = left]

\* the combined signal of $q.all once one of its promises is rejected
allRejectOne(b) ==
    IF b.status = "waiting" THEN [b EXCEPT !.status = "rejected"] ELSE b


\* ------------------------------------------------------------------------
\* ExportAsJSONAction
\* ------------------------------------------------------------------------
Nodes == 1..MaxNodes

\* this.context.domainObject
rootObject == 1

\* what one node can be: without the composition capability, or with it
\* and with any set of later nodes as its children (so the graph is acyclic)
NodeChoices(n) ==
    {[has |-> FALSE, children |-> {}]} \cup
    {[has |-> TRUE, children |-> c] : c \in SUBSET ((n + 1)..MaxNodes)}

\* the composition graphs over the nodes 1..n
RECURSIVE Graphs(_)
Graphs(n) ==
    IF n = 0 THEN {<<>>}
    ELSE {Append(g, c) : g \in Graphs(n - 1), c \in NodeChoices(n)}

\* domainObject.getModel()
getModel(n) == <<"model", n>>

\* rootObject.getModel().name + '.json'
filename(n) == <<"name", n, ".json">>

\* wrap(tree)
wrap(tree) == [openmct |-> tree]

\* tree[id] = model
put(tree, n) ==
    [id \in DOMAIN tree \cup {n} |-> IF id = n THEN getModel(n) ELSE tree[id]]

\* if (this.calls === 0) { callback(this.wrap(tree)); } in the walk w
callbackIfZero(w, st) ==
    IF st.calls = 0
    THEN [st EXCEPT !.zeros = @ + 1,
                    !.exports = Append(@, [walk |-> w,
                                           document |-> wrap(st.trees[w]),
                                           filename |-> filename(rootObject)])]
    ELSE st

\* write that decrements this.calls right after asking for the composition,
\* not in the .then callback
writeUnheld(w, n, graph, st) ==
    LET entered == [st EXCEPT !.calls = @ + 1]
    IN  IF graph[n].has
        THEN callbackIfZero(w,
                [entered EXCEPT !.calls = @ - 1,
                                !.compLookups =
                                    @ (+) SetToBag({[walk |-> w, node |-> n]})])
        ELSE callbackIfZero(w, [entered EXCEPT !.calls = @ - 1])

\* write(tree, domainObject, callback) up to the point where it returns:
\* st = [calls, trees, compLookups, exports, zeros]
write(w, n, graph, st) ==
    LET entered == [st EXCEPT !.calls = @ + 1]
    IN  IF graph[n].has
        THEN [entered EXCEPT !.compLookups =
                @ (+) SetToBag({[walk |-> w, node |-> n]})]
        ELSE callbackIfZero(w, [entered EXCEPT !.calls = @ - 1])

\* children.forEach(child => { tree[child.getId()] = child.getModel();
\*                             this.write(tree, child, callback); })
RECURSIVE forEachChild(_, _, _, _)
forEachChild(w, children, graph, st) ==
    IF children = {} THEN st
    ELSE LET child == CHOOSE c \in children : \A d \in children : c <= d
         IN  forEachChild(w, children \ {child}, graph,
                write(w, child, graph,
                      [st EXCEPT !.trees[w] = put(@, child)]))

\* the .then callback with this.calls-- and the test before the forEach
composedEarly(w, n, graph, st) ==
    forEachChild(w, graph[n].children, graph,
        callbackIfZero(w, [st EXCEPT !.calls = @ - 1]))

\* the .then callback of useCapability('composition') for node n of walk w
composed(w, n, graph, st) ==
    LET visited == forEachChild(w, graph[n].children, graph, st)
    IN  callbackIfZero(w, [visited EXCEPT !.calls = @ - 1])

expState == [calls |-> calls, trees |-> trees, compLookups |-> compLookups,
             exports |-> exports, zeros |-> zeros]

expSet(st) ==
    /\ calls' = st.calls
    /\ trees' = st.trees
    /\ compLookups' = st.compLookups
    /\ exports' = st.exports
    /\ zeros' = st.zeros

\* perform(): contructJSON(this.context.domainObject)
Perform ==
    /\ Len(trees) < MaxPerforms
    /\ LET w == Len(trees) + 1
           seeded == [expState EXCEPT
                        !.trees = Append(@, put(<<>>, rootObject))]
       IN  expSet(write(w, rootObject, composition, seeded))
    /\ UNCHANGED <<composition, compFailed>>
    /\ UNCHANGED ctlVars

\* A useCapability('composition') promise is fulfilled with the children
Compose(l) ==
    /\ l \in BagToSet(compLookups)
    /\ expSet(composed(l.walk, l.node, composition,
                [expState EXCEPT !.compLookups = @ (-) SetToBag({l})]))
    /\ UNCHANGED <<composition, compFailed>>
    /\ UNCHANGED ctlVars

\* A useCapability('composition') promise is rejected: .then has no
\* rejection handler, so nothing of the action runs
ComposeFail(l) ==
    /\ l \in BagToSet(compLookups)
    /\ compLookups' = compLookups (-) SetToBag({l})
    /\ compFailed' = compFailed + 1
    /\ UNCHANGED <<composition, calls, trees, exports, zeros>>
    /\ UNCHANGED ctlVars

InitController ==
    /\ ids = <<>>
    /\ response = <<>>
    /\ request = EmptyRequest
    /\ pending = 0
    /\ metadatas = <<>>
    /\ interval = InitialInterval
    /\ refreshing = TRUE                \* startTimeout() of the constructor
    /\ broadcasting = FALSE
    /\ watched = "not yet"
    /\ lookups = <<>>
    /\ fetches = EmptyBag
    /\ batches = <<>>
    /\ pollTimers = <<InitialInterval>>
    /\ bcastTimers = 0
    /\ emitted = <<>>
    /\ unannounced = 0
    /\ stuck = 0
    /\ nRejects = 0
    /\ nChanges = 0

InitExport ==
    /\ calls = 0
    /\ trees = <<>>
    /\ compLookups = EmptyBag
    /\ exports = <<>>
    /\ zeros = 0
    /\ compFailed = 0

\* The controller, next to an action that is never performed
Init ==
    /\ InitController
    /\ InitExport
    /\ composition = [n \in Nodes |-> [has |-> FALSE, children |-> {}]]

\* The export action on any composition graph, next to a controller that
\* is never used
InitAction ==
    /\ InitController
    /\ InitExport
    /\ composition \in Graphs(MaxNodes)

\* promiseRelevantDomainObjects(domainObject) starts from $q.when of a value
\* (of [], or of the undefined result of useCapability) and not of a promise
\* of the delegation capability: its callbacks run in the digest in which
\* the $watch listener has fired, before the listener can fire again
resolvesInDigest(domainObject) == ~hasDelegation(domainObject)

\* $scope.$watch("domainObject", getTelemetryObjects) fires with a new value:
\* getTelemetryObjects starts promiseRelevantDomainObjects(domainObject)
Watch(o) ==
    /\ nChanges < MaxChanges
    /\ \A i \in 1..Len(lookups) : ~resolvesInDigest(lookups[i])
    /\ o # watched
    /\ watched' = o
    /\ lookups' = Append(lookups, o)
    /\ nChanges' = nChanges + 1
    /\ emitted' = <<>>
    /\ UNCHANGED <<ids, response, request, pending, metadatas, interval,
                   refreshing, broadcasting, fetches, batches, pollTimers,
                   bcastTimers, unannounced, stuck, nRejects>>
    /\ UNCHANGED expVars


\* The promise of promiseRelevantDomainObjects resolves and
\* buildResponseContainers(domainObjects) runs
Build(k) ==
    /\ k \in 1..Len(lookups)
    /\ LET domainObjects == promiseRelevantDomainObjects(lookups[k])
           resp == buildAll(1, domainObjects, response)
           idList == buildIds(domainObjects)
           old == retire(fetches, {idList[i] : i \in 1..Len(idList)})
           res == IF Truthy(request)
                  THEN requestTelemetry(idList, resp, request, TRUE, 0, pending, old)
                  ELSE [pending |-> pending, fetches |-> old, issued |-> 0]
       IN  /\ response' = resp
           /\ ids' = idList
           /\ metadatas' = buildMetadatas(idList, resp)
           /\ BagCardinality(res.fetches) <= MaxInFlight
           /\ pending' = res.pending
           /\ fetches' = res.fetches
    /\ lookups' = [i \in 1..(Len(lookups) - 1) |->
                        IF i < k THEN lookups[i] ELSE lookups[i + 1]]
    /\ emitted' = <<>>
    /\ UNCHANGED <<request, interval, refreshing, broadcasting, watched, batches,
                   pollTimers, bcastTimers, unannounced, stuck, nRejects,
                   nChanges>>
    /\ UNCHANGED expVars

\* requestData(request)
RequestData(r) ==
    /\ Len(batches) < MaxRequests
    /\ LET req == IF Truthy(r) THEN r ELSE EmptyRequest
           res == requestTelemetry(ids, response, req, TRUE, Len(batches) + 1,
                                   pending, fetches)
       IN  /\ BagCardinality(res.fetches) <= MaxInFlight
           /\ request' = req
           /\ pending' = res.pending
           /\ fetches' = res.fetches
           /\ batches' = Append(batches,
                [req |-> req, pre |-> pending, left |-> res.issued,
                 status |-> IF res.issued = 0 THEN "resolved" ELSE "waiting"])
    /\ emitted' = <<>>
    /\ UNCHANGED <<ids, response, metadatas, interval, refreshing, broadcasting,
                   watched, lookups, pollTimers, bcastTimers, unannounced, stuck, nRejects, nChanges>>
    /\ UNCHANGED expVars

\* A telemetry.requestData promise is fulfilled: storeData(data) runs
Fulfil(f) ==
    /\ f \in BagToSet(fetches)
    /\ fetches' = fetches (-) SetToBag({f})
    /\ pending' = pending - pendingDecrement(f.track)
    /\ response' = storeData(response, f)
    /\ LET b == doBroadcast(broadcasting, bcastTimers)
       IN  /\ broadcasting' = b.broadcasting
           /\ bcastTimers' = b.bcastTimers
           /\ emitted' = b.emitted
    /\ unannounced' = IF unannounced < MaxCounted THEN unannounced + 1
                      ELSE MaxCounted
    /\ batches' = IF f.batch = 0 THEN batches
                  ELSE [batches EXCEPT ![f.batch] = allFulfilOne(@)]
    /\ UNCHANGED <<ids, request, metadatas, interval, refreshing, watched, lookups,
                   pollTimers, stuck, nRejects, nChanges>>
    /\ UNCHANGED expVars

\* A telemetry.requestData promise is rejected: .then(storeData) has no
\* rejection handler, so nothing of the controller runs
Reject(f) ==
    /\ f \in BagToSet(fetches)
    /\ fetches' = fetches (-) SetToBag({f})
    /\ nRejects < MaxRejects
    /\ nRejects' = nRejects + 1
    /\ stuck' = stuck + pendingIncrement(f.track)
    /\ batches' = IF f.batch = 0 THEN batches
                  ELSE [batches EXCEPT ![f.batch] = allRejectOne(@)]
    /\ emitted' = <<>>
    /\ UNCHANGED <<ids, response, request, pending, metadatas, interval,
                   refreshing, broadcasting, watched, lookups, pollTimers,
                   bcastTimers, unannounced, nChanges>>
    /\ UNCHANGED expVars

\* The $timeout callback of doBroadcast runs
Broadcast ==
    /\ bcastTimers > 0
    /\ bcastTimers' = bcastTimers - 1
    /\ broadcasting' = FALSE
    /\ emitted' = <<[name |-> "telemetryUpdate", after |-> unannounced]>>
    /\ unannounced' = 0
    /\ UNCHANGED <<ids, response, request, pending, metadatas, interval,
                   refreshing, watched, lookups, fetches, batches, pollTimers,
                   stuck, nRejects, nChanges>>
    /\ UNCHANGED expVars

\* The $timeout callback of startTimeout runs
PollTick(k) ==
    /\ k \in 1..Len(pollTimers)
    /\ LET timers == [i \in 1..(Len(pollTimers) - 1) |->
                        IF i < k THEN pollTimers[i] ELSE pollTimers[i + 1]]
           res == IF Truthy(request)
                  THEN requestTelemetry(ids, response, request, FALSE, 0,
                                        pending, fetches)
                  ELSE [pending |-> pending, fetches |-> fetches, issued |-> 0]
           st == startTimeout(FALSE, interval, timers)
       IN  /\ BagCardinality(res.fetches) <= MaxInFlight
           /\ pending' = res.pending
           /\ fetches' = res.fetches
           /\ refreshing' = st.refreshing
           /\ pollTimers' = st.pollTimers
    /\ emitted' = <<>>
    /\ UNCHANGED <<ids, response, request, metadatas, interval, broadcasting,
                   watched, lookups, batches, bcastTimers, unannounced, stuck, nRejects, nChanges>>
    /\ UNCHANGED expVars

\* setRefreshInterval(durationMillis)
SetRefreshInterval(durationMillis) ==
    /\ durationMillis # interval
    /\ interval' = durationMillis
    /\ LET st == startTimeout(refreshing, durationMillis, pollTimers)
       IN  /\ refreshing' = st.refreshing
           /\ pollTimers' = st.pollTimers
    /\ emitted' = <<>>
    /\ UNCHANGED <<ids, response, request, pending, metadatas, broadcasting,
                   watched, lookups, fetches, batches, bcastTimers, unannounced, stuck, nRejects, nChanges>>
    /\ UNCHANGED expVars

\* ---- the public accessors ----

\* getMetadata()
getMetadata == metadatas

\* getTelemetryObjects()
getTelemetryObjects == [i \in 1..Len(ids) |-> response[ids[i]].domainObject]

\* getResponse(arg) with an id or an object
getResponseOf(id) ==
    IF id \in DOMAIN response THEN response[id].data ELSE NoPayload

\* getResponse() without an argument
getResponse == [i \in 1..Len(ids) |-> getResponseOf(ids[i])]

\* isRequestPending()
isRequestPending == pending > 0

Next ==
    \/ \E o \in Represented : Watch(o)
    \/ \E k \in 1..MaxChanges : Build(k)
    \/ \E r \in RequestArgs : RequestData(r)
    \/ \E f \in BagToSet(fetches) : Fulfil(f)
    \/ Broadcast
    \/ \E k \in 1..2 : PollTick(k)

\* The controller when telemetry fetches can fail
NextFail ==
    \/ Next
    \/ \E f \in BagToSet(fetches) : Reject(f)

\* The controller whose poll interval is changed, with the request
\* parameters left as the constructor set them
NextTimer ==
    \/ \E o \in Represented : Watch(o)
    \/ \E k \in 1..MaxChanges : Build(k)
    \/ \E f \in BagToSet(fetches) : Fulfil(f)
    \/ Broadcast
    \/ \E k \in 1..2 : PollTick(k)
    \/ \E d \in Intervals : SetRefreshInterval(d)

Spec == Init /\ [][Next]_vars

NextAction ==
    \/ Perform
    \/ \E l \in BagToSet(compLookups) : Compose(l)
    \/ \E l \in BagToSet(compLookups) : ComposeFail(l)

SpecAction == InitAction /\ [][NextAction]_vars

SpecFail == Init /\ [][NextFail]_vars

SpecTimer == Init /\ [][NextTimer]_vars

\* ------------------------------------------------------------------------
\* Properties of the controller
\* ------------------------------------------------------------------------

\* fetches in flight that count in self.pending, and those that do not
TrackedInFlight ==
    BagCardinality([f \in {g \in DOMAIN fetches : g.track} |-> fetches[f]])
UntrackedInFlight ==
    BagCardinality([f \in {g \in DOMAIN fetches : ~g.track} |-> fetches[f]])

\* the tracked identifiers whose object has the telemetry capability
Fetchable ==
    Cardinality({i \in 1..Len(ids) : hasTelemetry(response[ids[i]].domainObject)})

\* the metadata an entry for object o holds
EntryMetadata(o) == IF hasTelemetry(o) THEN telemetryMetadata(o) ELSE Empty

\* C1: at every observation point getMetadata(), getTelemetryObjects() and
\* getResponse() have the same length, and at every index i the metadata,
\* the domain object and the payload are those of the entry of ids[i].
C1_IndexAligned ==
    /\ Len(getMetadata) = Len(ids)
    /\ Len(getTelemetryObjects) = Len(ids)
    /\ Len(getResponse) = Len(ids)
    /\ \A i \in 1..Len(ids) :
        /\ ids[i] \in DOMAIN response
        /\ getId(getTelemetryObjects[i]) = ids[i]
        /\ getMetadata[i] = response[ids[i]].metadata
        /\ getMetadata[i] = EntryMetadata(getTelemetryObjects[i])
        /\ getResponse[i] = response[ids[i]].data

\* C1 witness: a second represented object has been resolved, and three
\* objects are tracked
C1_Witness == nChanges = 2 /\ lookups = <<>> /\ Len(ids) = 3

\* ------------------------------------------------------------------------
\* Properties of the export action
\* ------------------------------------------------------------------------

\* the nodes reachable from the nodes of S through composition
RECURSIVE ReachableFrom(_)
ReachableFrom(S) ==
    LET next == S \cup UNION {composition[n].children : n \in S}
    IN  IF next = S THEN S ELSE ReachableFrom(next)

Reachable == ReachableFrom({rootObject})

\* C2: after one perform(), every document given to exportJSON is
\* {openmct: tree} with exactly one key per node reachable from the root,
\* each mapped to the node's model, and no composition lookup of the walk
\* is outstanding when it is given.
C2_ExportComplete ==
    Len(trees) = 1 =>
        \A i \in 1..Len(exports) :
            /\ exports[i].document = [openmct |-> [n \in Reachable |-> getModel(n)]]
            /\ exports[i].filename = filename(rootObject)
            /\ compLookups = EmptyBag

\* C2 witness: one perform() has exported a tree of at least three nodes
\* that is at least two levels deep
C2_Witness ==
    /\ Len(trees) = 1
    /\ Len(exports) = 1
    /\ Cardinality(DOMAIN exports[1].document.openmct) >= 3
    /\ \E n \in Reachable \ {rootObject} : composition[n].children # {}

\* C3: during one perform() in which no composition lookup fails, this.calls
\* is found zero at most once and exportJSON is invoked at most once; while
\* a lookup is outstanding the counter is above zero and nothing has been
\* exported, and once none is outstanding the counter has been found zero
\* exactly once and exportJSON has been invoked exactly once.
C3_ExactlyOnce ==
    (Len(trees) = 1 /\ compFailed = 0) =>
        /\ zeros = Len(exports)
        /\ Len(exports) <= 1
        /\ compLookups # EmptyBag => (calls > 0 /\ exports = <<>>)
        /\ compLookups = EmptyBag => (calls = 0 /\ Len(exports) = 1)

\* C3 witness: the walk of one perform() over a graph with a child shared
\* by two parents has ended
C3_Witness ==
    /\ Len(trees) = 1
    /\ compLookups = EmptyBag
    /\ Len(exports) = 1
    /\ \E m, n \in Reachable :
        m # n /\ composition[m].children \cap composition[n].children # {}

\* C4: a "telemetryUpdate" is emitted only by the deferred callback, never by
\* a settlement; at most one deferred broadcast is scheduled, and one is
\* scheduled exactly while the guard is set; every settlement not yet
\* announced has a broadcast scheduled; when the event is emitted the guard
\* is already clear and the one event covers all settlements before it.
C4_Debounce ==
    /\ bcastTimers <= 1
    /\ broadcasting <=> bcastTimers = 1
    /\ unannounced > 0 => broadcasting
    /\ Len(emitted) <= 1
    /\ emitted # <<>> =>
        /\ unannounced = 0
        /\ ~broadcasting
        /\ emitted[1].after >= 1

\* C4 witness: one event has been emitted after several settlements
C4_Witness == emitted # <<>> /\ emitted[1].after >= 2

\* the combined signal of requestData call b settles in this step
Settles(b) ==
    /\ b \in 1..Len(batches')
    /\ batches'[b].status # "waiting"
    /\ b > Len(batches) \/ batches[b].status = "waiting"

\* the combined signal of requestData call b is fulfilled in this step
Fulfils(b) == Settles(b) /\ batches'[b].status = "resolved"

C6_Original ==
    [][\A b \in 1..MaxRequests :
        Fulfils(b) =>
            \A i \in 1..Len(ids') :
                \A r \in {EmptyRequest} \cup RequestArgs :
                    r # batches'[b].req => getResponse'[i] # telemetryData(r)]_vars

\* C7 as stated: the first requestData call finds the pending counter at 0
\* and leaves it at the number of tracked objects.
C7_Original ==
    [][(batches = <<>> /\ Len(batches') = 1) =>
            (pending = 0 /\ pending' = Len(ids))]_vars

\* C8 as stated: a fetch that fails is a settlement like any other, so the
\* pending counter is the number of tracked fetches still in flight.
C8_Original == pending = TrackedInFlight

\* C9: a call of setRefreshInterval(undefined) leaves the outstanding wait
\* as it is; the callback of that wait then issues one poll fetch per
\* tracked object that has the capability and arms nothing; with the
\* interval undefined no step arms a timer (no timer is ever armed with an
\* undefined delay), and once the wait has run no poll fetch is issued; the
\* flag is set exactly while a wait is outstanding.
C9_UndefinedHalts ==
    /\ [](refreshing <=> Len(pollTimers) = 1)
    /\ [](\A i \in 1..Len(pollTimers) : pollTimers[i] # Undefined)
    /\ [](interval = Undefined /\ ~refreshing => pollTimers = <<>>)
    /\ [][(interval # Undefined /\ interval' = Undefined) =>
            pollTimers' = pollTimers]_vars
    /\ [][(interval = Undefined /\ Len(pollTimers') < Len(pollTimers)) =>
            /\ UntrackedInFlight' = UntrackedInFlight + Fetchable
            /\ ~refreshing'
            /\ pollTimers' = <<>>]_vars
    /\ [][(interval = Undefined /\ interval' = Undefined) =>
            /\ Len(pollTimers') <= Len(pollTimers)
            /\ pollTimers = <<>> => UntrackedInFlight' <= UntrackedInFlight]_vars

\* C9 witness: the wait that was outstanding has run with the interval
\* undefined (no timer is left), and a poll fetch is in flight
C9_Witness ==
    /\ interval = Undefined
    /\ pollTimers = <<>>
    /\ ~refreshing
    /\ UntrackedInFlight > 0

\* C10: a step that issues or settles an untracked fetch leaves the pending
\* counter as it is; the counter rises only in requestData and in an entry
\* reconstruction.
C10_PollUntracked ==
    /\ [][UntrackedInFlight' # UntrackedInFlight =>
            /\ pending' = pending
            /\ isRequestPending' = isRequestPending]_vars
    /\ [][pending' > pending =>
            (Len(batches') > Len(batches) \/ Len(lookups') < Len(lookups))]_vars

\* C10 witness: a poll fetch is in flight and no request is pending
C10_Witness == UntrackedInFlight > 0 /\ ~isRequestPending /\ ids # <<>>

\* the identifiers in self.ids
TrackedIds == {ids[i] : i \in 1..Len(ids)}

\* C11 as stated: the keys of self.response are exactly the identifiers in
\* self.ids; after a represented-object change no entry is left for an
\* identifier that is no longer tracked.
C11_Original == DOMAIN response = TrackedIds

\* the identifiers a caller can pass to getResponse(id)
Identifiers == {getId(o) : o \in {"A", "N", "P"}}

\* C12 as stated: getResponse(id) for an identifier that is not tracked is
\* the empty payload, not undefined and not a payload left from a time when
\* the identifier was tracked.
C12_Original ==
    \A id \in Identifiers : id \notin TrackedIds => getResponseOf(id) = Empty

\* C13 as stated: when a composition lookup of the one perform() has failed
\* and no lookup is outstanding any more, exportJSON has been invoked with
\* the tree accumulated so far and this.calls is back at zero.
C13_Original ==
    (Len(trees) = 1 /\ compFailed > 0 /\ compLookups = EmptyBag) =>
        /\ calls = 0
        /\ Len(exports) = 1
        /\ exports[1].document = wrap(trees[1])

\* C14: at most one poll timer is outstanding; a setRefreshInterval call
\* made while a wait is outstanding leaves that wait as it is and arms
\* nothing; made with a defined interval while no wait is outstanding it
\* arms one timer with that interval; the callback of a wait arms the next
\* one with the interval that is current then (none if it is undefined), so
\* with a defined interval a wait is always outstanding.
C14_SinglePollTimer ==
    /\ [](Len(pollTimers) <= 1)
    /\ [](interval # Undefined => Len(pollTimers) = 1)
    /\ [][(interval' # interval /\ pollTimers # <<>>) =>
            pollTimers' = pollTimers]_vars
    /\ [][(interval' # interval /\ pollTimers = <<>> /\ interval' # Undefined) =>
            (pollTimers' = <<interval'>> /\ refreshing')]_vars
    /\ [][(interval' = interval /\ pollTimers' # pollTimers) =>
            pollTimers' = IF interval = Undefined THEN <<>>
                          ELSE <<interval>>]_vars

\* C14 witness: the wait outstanding was armed by a reschedule with an
\* interval set before, and the interval has been changed again since
C14_Witness ==
    /\ pollTimers = <<"500">>
    /\ interval = InitialInterval
    /\ refreshing

\* C15 as stated: on a controller on which requestData has never been
\* called, no entry construction and no poll tick issues a fetch, and the
\* pending counter stays 0.
C15_Original == batches = <<>> => (fetches = EmptyBag /\ pending = 0)

\* the fetches of requestData call b that are in flight
InFlightOf(b) ==
    BagCardinality([f \in {g \in DOMAIN fetches : g.batch = b} |-> fetches[f]])

\* C16: no fetch is ever in flight against an object without the telemetry
\* capability, and the payload of such an object's entry stays empty; a
\* requestData call, an entry construction and a poll tick count (or issue)
\* one fetch per tracked object that has the capability and none for the
\* others, change no payload and schedule no broadcast; the combined signal
\* of a requestData call waits for exactly the fetches of the objects that
\* have the capability and is fulfilled when the last of them is.
C16_NoCapabilityNoop ==
    /\ [](\A f \in DOMAIN fetches : hasTelemetry(response[f.id].domainObject))
    /\ [](\A id \in DOMAIN response :
            ~hasTelemetry(response[id].domainObject) => response[id].data = Empty)
    /\ [](\A b \in 1..Len(batches) :
            /\ batches[b].left = InFlightOf(b)
            /\ batches[b].status = "resolved" <=> InFlightOf(b) = 0)
    /\ [][Len(batches') > Len(batches) =>
            /\ pending' = pending + Fetchable
            /\ batches'[Len(batches')].left = Fetchable
            /\ <<response, broadcasting, bcastTimers>>' =
                    <<response, broadcasting, bcastTimers>>]_vars
    /\ [][Len(lookups') < Len(lookups) =>
            /\ pending' = pending + Fetchable'
            /\ <<broadcasting, bcastTimers>>' = <<broadcasting, bcastTimers>>]_vars
    /\ [][UntrackedInFlight' > UntrackedInFlight =>
            /\ UntrackedInFlight' = UntrackedInFlight + Fetchable
            /\ pending' = pending
            /\ <<response, broadcasting, bcastTimers>>' =
                    <<response, broadcasting, bcastTimers>>]_vars

\* C16 witness: P, A and N are tracked (N has no telemetry capability); a
\* requestData call made while one fetch of the entry construction was in
\* flight has been fulfilled, and the counter is back at 0
C16_Witness ==
    /\ Len(ids) = 3
    /\ nChanges = 1
    /\ lookups = <<>>
    /\ Len(batches) = 1
    /\ batches[1].status = "resolved"
    /\ batches[1].pre = 1
    /\ fetches = EmptyBag
    /\ pending = 0

\* the fetch f is fulfilled in this step
Fulfilled(f) ==
    /\ f \in DOMAIN fetches
    /\ fetches' = fetches (-) SetToBag({f})
    /\ nRejects' = nRejects

\* C17 as stated: when a fetch for an object is fulfilled, its result is
\* what getResponse(id) returns from then on, also when the entry of the
\* identifier was rebuilt while the fetch was in flight.
C17_Original ==
    [][\A f \in DOMAIN fetches :
        Fulfilled(f) => getResponseOf(f.id)' = telemetryData(f.req)]_vars

\* C17 as amended: when a fetch is fulfilled, its result is what
\* getResponse(id) returns from then on if the fetch was issued since the
\* entry of the identifier was last constructed; the fulfilment of a fetch
\* issued before that leaves every payload as it is; a step that fulfils no
\* fetch changes a payload only by constructing the entry anew, with the
\* empty payload.
C17_Amended ==
    /\ [][\A f \in DOMAIN fetches :
            Fulfilled(f) =>
                /\ getResponseOf(f.id)' =
                        IF f.live THEN telemetryData(f.req)
                        ELSE getResponseOf(f.id)
                /\ \A id \in Identifiers \ {f.id} :
                        getResponseOf(id)' = getResponseOf(id)]_vars
    /\ [][(\A f \in DOMAIN fetches : ~Fulfilled(f)) =>
            \A id \in Identifiers :
                \/ getResponseOf(id)' = getResponseOf(id)
                \/ /\ getResponseOf(id)' = Empty
                   /\ Len(lookups') < Len(lookups)]_vars
    /\ [][\A f \in DOMAIN fetches' :
            ~f.live => /\ f.id \in DOMAIN response'
                       /\ f \in DOMAIN fetches \/ Len(lookups') < Len(lookups)]_vars

\* C17 witness: the one fetch in flight was issued for a tracked identifier
\* before its entry was rebuilt, and the entry holds the result of a fetch
\* with other parameters
C17_Witness ==
    /\ BagCardinality(fetches) = 1
    /\ \E f \in DOMAIN fetches :
        /\ ~f.live
        /\ f.id \in TrackedIds
        /\ getResponseOf(f.id) # Empty
        /\ getResponseOf(f.id) # telemetryData(f.req)

\* C18 as stated: once every delegation lookup has settled, the tracked set
\* is the one resolved for the represented object observed last, whatever
\* order the lookups have settled in.
C18_Original ==
    (lookups = <<>> /\ watched \in Represented) =>
        getTelemetryObjects = promiseRelevantDomainObjects(watched)

\* the exports made for the walk of perform() number w
ExportsOf(w) == {i \in 1..Len(exports) : exports[i].walk = w}

\* C19 as stated: with two perform() calls on one instance and no failed
\* lookup, no walk exports more than once or an incomplete tree, and once no
\* composition lookup is outstanding every walk has exported exactly once.
C19_Original ==
    compFailed = 0 =>
        /\ \A i \in 1..Len(exports) :
                exports[i].document =
                    [openmct |-> [n \in Reachable |-> getModel(n)]]
        /\ \A w \in 1..Len(trees) :
                /\ Cardinality(ExportsOf(w)) <= 1
                /\ compLookups = EmptyBag => Cardinality(ExportsOf(w)) = 1

\* C20: self.pending is never negative: it counts the tracked fetches that
\* have not been fulfilled, so every fetch that can lower it has raised it
\* before; a step lowers it by at most 1, and only by fulfilling a tracked
\* fetch; isRequestPending() is false exactly when it is 0.
C20_NonNegative ==
    /\ [](pending \in Nat)
    /\ [](pending >= TrackedInFlight)
    /\ [](isRequestPending <=> pending # 0)
    /\ [][pending' < pending =>
            /\ pending' = pending - 1
            /\ \E f \in DOMAIN fetches : f.track /\ Fulfilled(f)]_vars

\* C20 witness: the counter is back at 0 after a requestData call, and the
\* fetches still in flight are poll fetches, whose fulfilment must not
\* lower it
C20_Witness ==
    /\ pending = 0
    /\ Len(batches) > 0
    /\ batches[1].status = "resolved"
    /\ Len(ids) = 3
    /\ UntrackedInFlight = 2
    /\ TrackedInFlight = 0
    /\ unannounced > 0

====
